---- MODULE Spec2Model ----
(***************************************************************************)
(* The proof-of-work engine of anonid_pow (src/anonid_pow/src/lib.rs):     *)
(* UserData (new, from_merged, merge, username_length), PoWAlgo::calculate *)
(* and PoW (adjust_difficulty, calculate_target, calculate_pow,            *)
(* verify_pow).                                                            *)
(*                                                                         *)
(* Strings are sequences of one-character strings.  A usize is a sequence  *)
(* of UsizeNibbles hexadecimal digits, most significant first, so that     *)
(* 2^d - 1 and its "{:x}" rendering are computed at the width of the       *)
(* program.  Option<T> is <<>> (None) or <<v>> (Some(v)); the same shape   *)
(* stands for "the call panicked" where a function has no Option result.   *)
(* SHA-256 is an external crate: it is modelled as an arbitrary function   *)
(* of the hashed bytes, fixed the first time a message is hashed (sha).    *)
(***************************************************************************)
EXTENDS Integers, Sequences, FiniteSets

VARIABLES
    username,         \* UserData.username of the held record
    auth_address,     \* UserData.auth_address of the held record
    difficulty,       \* PoW.difficulty
    overflow_checks,  \* build profile: TRUE when arithmetic overflow panics
    pc,               \* position of the caller / of calculate_pow's loop
    adjusted,         \* Option: result of the last adjust_difficulty call
    target,           \* local `target` of calculate_pow / verify_pow
    nonce,            \* local `nonce` of calculate_pow's loop
    sha,              \* SHA-256 as far as it has been evaluated: message -> digest
    pow_value,        \* <<hash, nonce>> returned by calculate_pow, or <<>>
    input,            \* <<input_hash, nonce>> handed to verify_pow, or <<>>
    result,           \* Option: the boolean verify_pow returned
    merged,           \* the String handed to from_merged
    parsed            \* Option<UserData> returned by from_merged

vars == <<username, auth_address, difficulty, overflow_checks, pc, adjusted,
          target, nonce, sha, pow_value, input, result, merged, parsed>>

----------------------------------------------------------------------------
(* Bounds of the model *)

MaxUsernameLength == 21
MaxDifficulty == 6
MaxNonce == 1
MaxFieldLen == 2
MaxMergedLen == 4

(* Widths fixed by the program *)

HashHexLen == 64
UsizeBits == 64
TestDifficulty == 24
UsizeNibbles == UsizeBits \div 4

----------------------------------------------------------------------------
(* Option and small helpers *)

None == <<>>

Some(v) == <<v>>

Max(a, b) == IF a >= b THEN a ELSE b

Repeat(c, n) == [i \in 1..n |-> c]

Take(s, n) == SubSeq(s, 1, n)

RECURSIVE StringsUpTo(_, _)
StringsUpTo(alphabet, n) ==
    IF n = 0 THEN {<<>>}
    ELSE LET shorter == StringsUpTo(alphabet, n - 1)
         IN  shorter \cup {Append(s, c) : s \in shorter, c \in alphabet}

HexChars == <<"0", "1", "2", "3", "4", "5", "6", "7",
              "8", "9", "a", "b", "c", "d", "e", "f">>

DecChars == <<"0", "1", "2", "3", "4", "5", "6", "7", "8", "9">>

----------------------------------------------------------------------------
(* UserData *)

UserData_new(u, a) == [username |-> u, auth_address |-> a]

\* str::split(":") : the tokens between the separators; always at least one
RECURSIVE Split(_)
Split(s) ==
    IF \A i \in 1..Len(s) : s[i] # ":" THEN <<s>>
    ELSE LET k == CHOOSE i \in 1..Len(s) :
                      s[i] = ":" /\ \A j \in 1..(i - 1) : s[j] # ":"
         IN  <<SubSeq(s, 1, k - 1)>> \o Split(SubSeq(s, k + 1, Len(s)))

\* the field-assignment slip: the username token stored in both fields
from_merged_username_twice(merged_userdata) ==
    LET userdata == Split(merged_userdata)
    IN  IF Len(userdata) < 2 THEN None
        ELSE Some([username |-> userdata[2], auth_address |-> userdata[2]])

\* a parser that insists on exactly two tokens
from_merged_exactly_two(merged_userdata) ==
    LET userdata == Split(merged_userdata)
    IN  IF Len(userdata) # 2 THEN None
        ELSE Some([username |-> userdata[2], auth_address |-> userdata[1]])

from_merged(merged_userdata) ==
    LET userdata == Split(merged_userdata)
    IN  IF Len(userdata) < 1 THEN None          \* userdata.get(0)?
        ELSE IF Len(userdata) < 2 THEN None     \* userdata.get(1)?
        ELSE Some([username |-> userdata[2], auth_address |-> userdata[1]])

merge(userdata) == userdata.auth_address \o <<":">> \o userdata.username

username_length(userdata) == Len(userdata.username)

----------------------------------------------------------------------------
(* PoWAlgo::calculate *)

RECURSIVE Decimal(_)
Decimal(n) ==
    IF n < 10 THEN <<DecChars[n + 1]>>
    ELSE Decimal(n \div 10) \o <<DecChars[(n % 10) + 1]>>

\* the bytes fed to the hasher: userdata, then ":{nonce}"
Message(userdata, n) == userdata \o <<":">> \o Decimal(n)

\* "{:x}" of a SHA-256 digest: HashHexLen lowercase hex characters
Digest(first, last) ==
    [i \in 1..HashHexLen |->
        IF i = 1 THEN first ELSE IF i = HashHexLen THEN last ELSE "f"]

Digests == {Digest(c, "f") : c \in {"0", "1", "3", "7", "f"}}

\* the digests SHA-256 may give for a message: the one already seen, else any
calculate(userdata, n) ==
    IF Message(userdata, n) \in DOMAIN sha
    THEN {sha[Message(userdata, n)]}
    ELSE Digests

Remember(userdata, n, hash) ==
    [m \in DOMAIN sha \cup {Message(userdata, n)} |->
        IF m = Message(userdata, n) THEN hash ELSE sha[m]]

----------------------------------------------------------------------------
(* PoW: difficulty adjustment and target *)

\* the divisor taken from the whole difficulty instead of its half
adjust_difficulty_no_half(len, diff) ==
    IF diff = 0 THEN None
    ELSE Some(diff \div Max(1, len \div diff))

\* None: `username_length / half_difficulty` panics, attempt to divide by zero
adjust_difficulty(len, diff) ==
    LET half_difficulty == diff \div 2
    IN  IF half_difficulty = 0 THEN None
        ELSE LET divisor == Max(1, len \div half_difficulty)
             IN  Some(diff \div divisor)

\* usize arithmetic on UsizeNibbles hex digits, most significant first.
\* None: the operation overflowed and the build checks overflow.
UsizeZero == [i \in 1..UsizeNibbles |-> 0]

UsizeMax == [i \in 1..UsizeNibbles |-> 15]

Pow2(exp) ==
    IF exp >= UsizeBits
    THEN IF overflow_checks THEN None ELSE Some(UsizeZero)
    ELSE Some([i \in 1..UsizeNibbles |->
                  IF UsizeNibbles - i = exp \div 4 THEN 2 ^ (exp % 4) ELSE 0])

RECURSIVE Borrow(_)
Borrow(digits) ==
    IF digits[Len(digits)] > 0
    THEN [digits EXCEPT ![Len(digits)] = @ - 1]
    ELSE Append(Borrow(SubSeq(digits, 1, Len(digits) - 1)), 15)

SubOne(x) ==
    IF x = UsizeZero
    THEN IF overflow_checks THEN None ELSE Some(UsizeMax)
    ELSE Some(Borrow(x))

\* "{:x}": lowercase hex without leading zeros, "0" for zero
RECURSIVE LowerHex(_)
LowerHex(digits) ==
    IF Len(digits) > 1 /\ digits[1] = 0 THEN LowerHex(Tail(digits))
    ELSE [i \in 1..Len(digits) |-> HexChars[digits[i] + 1]]

\* the leading-zero rule: adjusted_difficulty '0' characters
calculate_target_zeros(adjusted_difficulty) ==
    Some(Repeat("0", adjusted_difficulty))

\* the numeric target with the exponent one too large
calculate_target_next_power(adjusted_difficulty) ==
    LET p == Pow2(adjusted_difficulty + 1)
    IN  IF p = None THEN None
        ELSE LET m == SubOne(p[1])
             IN  IF m = None THEN None ELSE Some(LowerHex(m[1]))

\* format!("{:x}", usize::pow(2, adjusted_difficulty as u32) - 1)
calculate_target(adjusted_difficulty) ==
    LET p == Pow2(adjusted_difficulty)
    IN  IF p = None THEN None
        ELSE LET m == SubOne(p[1])
             IN  IF m = None THEN None ELSE Some(LowerHex(m[1]))

\* hash[..target.len()] == target; None: the slice is out of range
Matches(hash, tgt) ==
    IF Len(tgt) > Len(hash) THEN None
    ELSE Some(Take(hash, Len(tgt)) = tgt)

\* nonce += 1
next_nonce_skip(n) == n + 2

next_nonce(n) == n + 1

\* a verifier that checks the supplied digest's prefix and never compares
verify_result_trusts_input(computed_hash, input_hash, tgt) ==
    LET m == Matches(input_hash, tgt)
    IN  IF m = None THEN None ELSE Some(m[1])

\* a verifier that applies the leading-zero rule to the mined digest
verify_result_leading_zeros(computed_hash, input_hash, tgt) ==
    Some(/\ \A i \in 1..Len(tgt) : computed_hash[i] = "0"
         /\ computed_hash = input_hash)

\* computed_hash[..target.len()] == target && computed_hash == input_hash
verify_result(computed_hash, input_hash, tgt) ==
    LET m == Matches(computed_hash, tgt)
    IN  IF m = None THEN None
        ELSE Some(m[1] /\ computed_hash = input_hash)

----------------------------------------------------------------------------
(* Inputs *)

Usernames == {Repeat("u", n) : n \in 0..MaxUsernameLength}

AuthAddresses == {<<"1", "F">>}

Difficulties ==
    (0..MaxDifficulty) \cup {TestDifficulty, UsizeBits - 1, UsizeBits, UsizeBits + 1}

AllDifficulties == 0..(UsizeBits + 1)

FieldStrings == StringsUpTo({"a", "b", ":"}, MaxFieldLen)

MergedStrings == StringsUpTo({"a", "b", ":"}, MaxMergedLen)

\* digests a caller may hand to verify_pow: SHA-256 outputs and, once a pair
\* was mined, its digest with the last character altered
InputDigests ==
    Digests \cup (IF pow_value = <<>> THEN {}
                  ELSE {[pow_value[1] EXCEPT ![HashHexLen] = "e"]})

Held == UserData_new(username, auth_address)

----------------------------------------------------------------------------
(* PoW::calculate_pow and PoW::verify_pow *)

InitPoW ==
    /\ username \in Usernames
    /\ auth_address \in AuthAddresses
    /\ difficulty \in Difficulties
    /\ overflow_checks \in BOOLEAN
    /\ pc = "new"
    /\ adjusted = None
    /\ target = <<>>
    /\ nonce = 0
    /\ sha = <<>>
    /\ pow_value = <<>>
    /\ input = <<>>
    /\ result = None
    /\ merged = <<>>
    /\ parsed = None

\* calculate_pow up to the loop: merge, adjust_difficulty, calculate_target
CalculatePowEnter ==
    /\ pc = "new"
    /\ LET adj == adjust_difficulty(username_length(Held), difficulty)
           tgt == IF adj = None THEN None ELSE calculate_target(adj[1])
       IN  /\ adjusted' = adj
           /\ IF tgt = None
              THEN pc' = "panic" /\ UNCHANGED <<target, nonce>>
              ELSE pc' = "loop" /\ target' = tgt[1] /\ nonce' = 0
    /\ UNCHANGED <<username, auth_address, difficulty, overflow_checks, sha,
                   pow_value, input, result, merged, parsed>>

\* one iteration of calculate_pow's loop
CalculatePowLoop ==
    /\ pc = "loop"
    /\ \E hash \in calculate(merge(Held), nonce) :
          LET m == Matches(hash, target)
          IN  /\ sha' = Remember(merge(Held), nonce, hash)
              /\ IF m = None
                 THEN pc' = "panic" /\ UNCHANGED <<nonce, pow_value>>
                 ELSE IF m[1]
                 THEN pc' = "mined" /\ pow_value' = <<hash, nonce>>
                                    /\ UNCHANGED nonce
                 ELSE /\ nonce < MaxNonce
                      /\ pc' = "loop"
                      /\ nonce' = next_nonce(nonce)
                      /\ UNCHANGED pow_value
    /\ UNCHANGED <<username, auth_address, difficulty, overflow_checks,
                   adjusted, target, input, result, merged, parsed>>

\* verify_pow((input_hash, n)) on a PoW of the same identity and difficulty
VerifyPow(input_hash, n) ==
    /\ pc \in {"new", "mined"}
    /\ input' = <<input_hash, n>>
    /\ LET adj == adjust_difficulty(username_length(Held), difficulty)
           tgt == IF adj = None THEN None ELSE calculate_target(adj[1])
       IN  /\ adjusted' = adj
           /\ IF tgt = None
              THEN pc' = "panic" /\ UNCHANGED <<target, sha, result>>
              ELSE \E computed_hash \in calculate(merge(Held), n) :
                      LET r == verify_result(computed_hash, input_hash, tgt[1])
                      IN  /\ target' = tgt[1]
                          /\ sha' = Remember(merge(Held), n, computed_hash)
                          /\ result' = r
                          /\ pc' = IF r = None THEN "panic" ELSE "verified"
    /\ UNCHANGED <<username, auth_address, difficulty, overflow_checks, nonce,
                   pow_value, merged, parsed>>

Next ==
    \/ CalculatePowEnter
    \/ CalculatePowLoop
    \/ \E input_hash \in InputDigests, n \in 0..MaxNonce : VerifyPow(input_hash, n)

Spec == InitPoW /\ [][Next]_vars

----------------------------------------------------------------------------
(* PoW::adjust_difficulty on its own *)

InitAdjust ==
    /\ username \in Usernames
    /\ auth_address \in AuthAddresses
    /\ difficulty \in AllDifficulties
    /\ overflow_checks \in BOOLEAN
    /\ pc = "new"
    /\ adjusted = None
    /\ target = <<>>
    /\ nonce = 0
    /\ sha = <<>>
    /\ pow_value = <<>>
    /\ input = <<>>
    /\ result = None
    /\ merged = <<>>
    /\ parsed = None

AdjustDifficulty ==
    /\ pc = "new"
    /\ adjusted' = adjust_difficulty(username_length(Held), difficulty)
    /\ pc' = IF adjusted' = None THEN "panic" ELSE "adjusted"
    /\ UNCHANGED <<username, auth_address, difficulty, overflow_checks, target,
                   nonce, sha, pow_value, input, result, merged, parsed>>

NextAdjust == AdjustDifficulty

SpecAdjust == InitAdjust /\ [][NextAdjust]_vars

----------------------------------------------------------------------------
(* UserData: new, merge, from_merged *)

InitUserData ==
    /\ \/ /\ pc = "new"
          /\ username \in FieldStrings
          /\ auth_address \in FieldStrings
          /\ merged = <<>>
       \/ /\ pc = "received"
          /\ username = <<>>
          /\ auth_address = <<>>
          /\ merged \in MergedStrings
    /\ difficulty = 0
    /\ overflow_checks = FALSE
    /\ adjusted = None
    /\ target = <<>>
    /\ nonce = 0
    /\ sha = <<>>
    /\ pow_value = <<>>
    /\ input = <<>>
    /\ result = None
    /\ parsed = None

Merge ==
    /\ pc = "new"
    /\ merged' = merge(Held)
    /\ pc' = "merged"
    /\ UNCHANGED <<username, auth_address, difficulty, overflow_checks,
                   adjusted, target, nonce, sha, pow_value, input, result,
                   parsed>>

FromMerged ==
    /\ pc \in {"merged", "received"}
    /\ parsed' = from_merged(merged)
    /\ pc' = IF pc = "merged" THEN "round_trip" ELSE "parsed"
    /\ UNCHANGED <<username, auth_address, difficulty, overflow_checks,
                   adjusted, target, nonce, sha, pow_value, input, result,
                   merged>>

NextUserData == Merge \/ FromMerged

SpecUserData == InitUserData /\ [][NextUserData]_vars

----------------------------------------------------------------------------
(* Properties *)

NoColon(s) == \A i \in 1..Len(s) : s[i] # ":"

HasPrefix(hash, tgt) == Len(tgt) <= Len(hash) /\ Take(hash, Len(tgt)) = tgt

\* the digest SHA-256 gave for the held identity and nonce n
HashedAt(n) == sha[Message(merge(Held), n)]

WasHashed(n) == Message(merge(Held), n) \in DOMAIN sha

\* q is the floor of a / b
IsFloorDiv(q, a, b) == b > 0 /\ q * b <= a /\ a < (q + 1) * b

\* lowercase hex of 2^d - 1, written digit by digit, for d below the usize width
NumericTargetString(d) ==
    IF d = 0 THEN <<"0">>
    ELSE (IF d % 4 = 0 THEN <<>> ELSE <<HexChars[2 ^ (d % 4)]>>)
         \o Repeat("f", d \div 4)

\* C1: the pair returned by calculate_pow, handed to verify_pow of a PoW with
\* the same identity, difficulty and algorithm, makes verify_pow return true
\* (and verify_pow does not panic on it).
MiningVerificationAgreement ==
    (pow_value # <<>> /\ input = pow_value)
        => (pc = "verified" /\ result = Some(TRUE))

\* C1 witness: a mined pair, found after a failed nonce, was verified and accepted.
MinedPairAccepted ==
    /\ pc = "verified"
    /\ pow_value # <<>>
    /\ input = pow_value
    /\ pow_value[2] >= 1
    /\ result = Some(TRUE)

VerifyAcceptsExactly ==
    /\ pc = "verified"
          => /\ WasHashed(input[2])
             /\ result = Some(/\ HasPrefix(HashedAt(input[2]), target)
                              /\ HashedAt(input[2]) = input[1])
    /\ (pow_value # <<>> /\ input # <<>> /\ input[2] = pow_value[2]
            /\ input[1] # pow_value[1])
          => (pc = "verified" /\ result = Some(FALSE))

\* C3 witness: the mined nonce with another digest that still carries the
\* target prefix was verified and rejected.
TamperedDigestRejected ==
    /\ pc = "verified"
    /\ pow_value # <<>>
    /\ input[2] = pow_value[2]
    /\ input[1] # pow_value[1]
    /\ HasPrefix(input[1], target)
    /\ result = Some(FALSE)

\* C4: for base difficulty D >= 2 and username length L, adjust_difficulty(L, D)
\* is D div max(1, L div (D div 2)) with floor division; for D = 6 the results
\* for L = 2, 7, 10, 18 are 6, 3, 2, 1.
AdjustDifficultyFormula ==
    (pc \in {"adjusted", "panic"} /\ difficulty >= 2)
        => /\ pc = "adjusted"
           /\ adjusted # None
           /\ \E half \in 1..difficulty, quot \in 0..Len(username) :
                 /\ IsFloorDiv(half, difficulty, 2)
                 /\ IsFloorDiv(quot, Len(username), half)
                 /\ IsFloorDiv(adjusted[1], difficulty, Max(1, quot))
           /\ (difficulty = 6 /\ Len(username) = 2) => adjusted = Some(6)
           /\ (difficulty = 6 /\ Len(username) = 7) => adjusted = Some(3)
           /\ (difficulty = 6 /\ Len(username) = 10) => adjusted = Some(2)
           /\ (difficulty = 6 /\ Len(username) = 18) => adjusted = Some(1)

\* C4 witness: adjust_difficulty(18, 6) was called and gave 1.
AdjustedEighteenSix ==
    /\ pc = "adjusted"
    /\ difficulty = 6
    /\ Len(username) = 18
    /\ adjusted = Some(1)

\* C5: for a username and an auth_address without ':', from_merged(merge(new(
\* username, auth_address))) is a record with exactly those two fields.
RoundTrip ==
    (pc = "round_trip" /\ NoColon(username) /\ NoColon(auth_address))
        => parsed = Some([username |-> username, auth_address |-> auth_address])

\* C5 witness: a record with two different colon-free fields went through
\* merge and from_merged.
RoundTripDone ==
    /\ pc = "round_trip"
    /\ username = <<"a", "b">>
    /\ auth_address = <<"b">>
    /\ merged = <<"b", ":", "a", "b">>
    /\ parsed # None

\* C6: from_merged(s) is None exactly when s contains no ':' and is a record
\* for every s that contains one.
ParseAbsentIffNoSeparator ==
    pc \in {"parsed", "round_trip"}
        => /\ parsed = None <=> NoColon(merged)
           /\ parsed # None => /\ Len(parsed) = 1
                               /\ DOMAIN parsed[1] = {"username", "auth_address"}

\* C6 witness: a non-empty string without ':' was parsed and gave None.
ParseRejected ==
    /\ pc = "parsed"
    /\ Len(merged) > 0
    /\ NoColon(merged)
    /\ parsed = None

DegenerateDifficultyGuarded ==
    difficulty < 2 => pc # "panic"

\* C9 as stated: with an adjusted difficulty above the digest's hex length
\* calculate_pow and verify_pow never panic.
OversizedDifficultyNoPanic ==
    (adjusted # None /\ adjusted[1] > HashHexLen) => pc # "panic"

\* C10: calculate_pow tries the nonces 0, 1, 2, ... in order; the pair it
\* returns holds the digest of the returned nonce, that digest meets the
\* target, and no smaller nonce has a digest that meets it.
MinimalNonce ==
    /\ pc \in {"loop", "mined"}
          => \A k \in 0..(nonce - 1) :
                WasHashed(k) /\ ~HasPrefix(HashedAt(k), target)
    /\ pc = "mined"
          => /\ pow_value[2] = nonce
             /\ WasHashed(nonce)
             /\ pow_value[1] = HashedAt(nonce)
             /\ HasPrefix(pow_value[1], target)

\* C10 witness: calculate_pow returned a nonce above 0.
MinedAfterFailure ==
    /\ pc = "mined"
    /\ pow_value[2] >= 1
    /\ ~HasPrefix(HashedAt(0), target)

====
